---- MODULE Spec2Model ----
(***************************************************************************)
(* Model of src/main.rs: the markdown metadata extractor and the two-pass  *)
(* series consolidator / loader that rebuilds series_data and ep_data.     *)
(*                                                                         *)
(* Text is modelled as a sequence of characters, each character being a    *)
(* one-element token (a string).  The regular expressions of main.rs are   *)
(* modelled by leftmost-first matchers over such sequences.                *)
(***************************************************************************)
EXTENDS Integers, Sequences, FiniteSets, TLC

(***************************************************************************)
(* Characters                                                              *)
(***************************************************************************)
NL == "\n"
\* A decimal digit outside ASCII (ARABIC-INDIC DIGIT THREE, U+0663): two bytes in UTF-8.
ArabicThree == "U+0663"
\* A letter outside ASCII (LATIN SMALL LETTER E WITH ACUTE, U+00E9): two bytes in UTF-8.
EAcute == "U+00E9"

AsciiDigits == {"0", "1", "2", "3", "4", "5", "6", "7", "8", "9"}

is_ascii_digit(c) == c \in AsciiDigits

\* \d of the regex crate is Unicode-aware: any decimal digit.
is_regex_digit(c) == c \in AsciiDigits \cup {ArabicThree}

\* \s of the regex crate and char::is_whitespace.
Whitespace == {" ", NL, "\t"}

is_whitespace(c) == c \in Whitespace

len_utf8(c) == IF c \in {ArabicThree, EAcute} THEN 2 ELSE 1

\* Byte order of the characters that occur in file names.
ByteOrder ==
  <<" ", ".", "0", "1", "2", "3", "4", "5", "6", "7", "8", "9",
    "F", "_", "a", "b", "c", "d", "m", "o", "t", "x">>

Code(c) == CHOOSE k \in 1..Len(ByteOrder) : ByteOrder[k] = c

(***************************************************************************)
(* String helpers of the standard library used by main.rs                  *)
(***************************************************************************)
Min(a, b) == IF a < b THEN a ELSE b

RECURSIVE byte_len(_)
byte_len(s) == IF s = <<>> THEN 0 ELSE len_utf8(Head(s)) + byte_len(Tail(s))

\* str::trim: leading and trailing whitespace removed.
trim(s) ==
  LET keep == {k \in 1..Len(s) : ~is_whitespace(s[k])}
  IN  IF keep = {} THEN <<>>
      ELSE SubSeq(s, CHOOSE a \in keep : \A k \in keep : a <= k,
                     CHOOSE b \in keep : \A k \in keep : b >= k)

\* str::rfind(' '): position of the last space, 0 for None.
rfind_space(s) ==
  LET at == {k \in 1..Len(s) : s[k] = " "}
  IN  IF at = {} THEN 0 ELSE CHOOSE b \in at : \A k \in at : b >= k

\* s[at..] starts with lit.
starts_at(s, at, lit) ==
  /\ at + Len(lit) - 1 <= Len(s)
  /\ SubSeq(s, at, at + Len(lit) - 1) = lit

\* First position p >= from where s[p] is not in class, Len(s)+1 when none (a greedy star).
skip_while(s, from, class) ==
  CHOOSE p \in from..(Len(s) + 1) :
    /\ \A k \in from..(p - 1) : s[k] \in class
    /\ p = Len(s) + 1 \/ s[p] \notin class

\* str::split(sep): the pieces between separators.
split(s, sep) ==
  LET at   == {k \in 1..Len(s) : s[k] = sep}
      cuts == at \cup {0, Len(s) + 1}
      next(c) == CHOOSE d \in cuts : d > c /\ \A e \in cuts : e > c => d <= e
      RECURSIVE from(_)
      from(c) == IF c = Len(s) + 1 THEN <<>>
                 ELSE <<SubSeq(s, c + 1, next(c) - 1)>> \o from(next(c))
  IN  from(0)

\* str::lines: split on "\n", without a final empty line.
lines(s) ==
  LET pieces == split(s, NL)
  IN  IF pieces[Len(pieces)] = <<>> THEN SubSeq(pieces, 1, Len(pieces) - 1) ELSE pieces

DotMd == <<".", "m", "d">>

\* str::trim_end_matches(".md"): every trailing repetition of the suffix removed.
RECURSIVE trim_end_matches_md(_)
trim_end_matches_md(s) ==
  IF Len(s) >= 3 /\ SubSeq(s, Len(s) - 2, Len(s)) = DotMd
    THEN trim_end_matches_md(SubSeq(s, 1, Len(s) - 3))
    ELSE s

\* Path::extension: the part after the last dot of the file name; <<>> stands for None
\* (no dot, or the only dot begins the name).
extension(name) ==
  LET at == {k \in 2..Len(name) : name[k] = "."}
  IN  IF at = {} THEN <<>>
      ELSE SubSeq(name, (CHOOSE b \in at : \A k \in at : b >= k) + 1, Len(name))

\* Ord for byte strings: lexicographic order.
RECURSIVE bytes_less(_, _)
bytes_less(a, b) ==
  IF b = <<>> THEN FALSE
  ELSE IF a = <<>> THEN TRUE
  ELSE IF Head(a) # Head(b) THEN Code(Head(a)) < Code(Head(b))
  ELSE bytes_less(Tail(a), Tail(b))

(***************************************************************************)
(* Option values: None is <<>>, Some(x) is <<x>>.                          *)
(***************************************************************************)
None == <<>>

Some(x) == <<x>>

\* First position p >= from where s[p] is in stops, Len(s)+1 when none (a greedy negated class).
skip_until(s, from, stops) ==
  CHOOSE p \in from..(Len(s) + 1) :
    /\ \A k \in from..(p - 1) : s[k] \notin stops
    /\ p = Len(s) + 1 \/ s[p] \in stops

\* Leftmost position in S, 0 when S is empty.
leftmost(S) == IF S = {} THEN 0 ELSE CHOOSE a \in S : \A k \in S : a <= k

(***************************************************************************)
(* clean_series_name (main.rs 10-19)                                       *)
(***************************************************************************)
clean_series_name(name) ==
  LET last_space_idx == rfind_space(name)
      base_name      == SubSeq(name, 1, last_space_idx - 1)
      episode_part   == SubSeq(name, last_space_idx, Len(name))
      ep_part        == trim(episode_part)
  IN  IF /\ last_space_idx > 0
         /\ \A k \in 1..Len(ep_part) : is_ascii_digit(ep_part[k]) \/ ep_part[k] = "."
        THEN trim(base_name)
        ELSE name

(***************************************************************************)
(* The regular expressions (main.rs 65-67, 102)                            *)
(***************************************************************************)
TitleKey == <<"t", "i", "t", "l", "e", ":">>

TagsKey == <<"t", "a", "g", "s", ":">>

DescKey == <<"d", "e", "s", "c", "r", "i", "p", "t", "i", "o", "n", ":">>

\* key \s* open ([^close]*) close, matched at position p: the end of the capture, 0 when no match.
delimited_at(s, p, key, open, close) ==
  LET q == skip_while(s, p + Len(key), Whitespace)
      r == skip_until(s, q + 1, {close})
  IN  IF /\ starts_at(s, p, key)
         /\ q <= Len(s)
         /\ s[q] = open
         /\ r <= Len(s)
        THEN r ELSE 0

\* Regex::captures for key \s* open ([^close]*) close: group 1 of the leftmost match.
delimited_captures(s, key, open, close) ==
  LET p == leftmost({k \in 1..Len(s) : delimited_at(s, k, key, open, close) > 0})
      q == skip_while(s, p + Len(key), Whitespace)
  IN  IF p = 0 THEN None
      ELSE Some(SubSeq(s, q + 1, delimited_at(s, p, key, open, close) - 1))

\* title_re = title:\s*"([^"]*)"
title_re_captures(content) == delimited_captures(content, TitleKey, "\"", "\"")

\* tag_re = tags:\s*\[([^\]]*)\]
tag_re_captures(content) == delimited_captures(content, TagsKey, "[", "]")

\* Variant: only a digit run of exactly six digits matches (\b\d{6}\b).
yyyymm_re_find_whole_run(s) ==
  LET p == leftmost({k \in 1..(Len(s) - 5) :
                       /\ \A j \in k..(k + 5) : is_regex_digit(s[j])
                       /\ k = 1 \/ ~is_regex_digit(s[k - 1])
                       /\ k + 6 > Len(s) \/ ~is_regex_digit(s[k + 6])})
  IN  IF p = 0 THEN None ELSE Some(SubSeq(s, p, p + 5))

\* yyyymm_re = \d{6}: Regex::find, the leftmost six consecutive digits.
yyyymm_re_find(s) ==
  LET p == leftmost({k \in 1..(Len(s) - 5) :
                       \A j \in k..(k + 5) : is_regex_digit(s[j])})
  IN  IF p = 0 THEN None ELSE Some(SubSeq(s, p, p + 5))

\* desc_re = description:\s*["']?([^"\n']*): group 1 of the leftmost match.
desc_re_captures(content) ==
  LET p == leftmost({k \in 1..Len(content) : starts_at(content, k, DescKey)})
      q == skip_while(content, p + Len(DescKey), Whitespace)
      b == IF q <= Len(content) /\ content[q] \in {"\"", "'"} THEN q + 1 ELSE q
      r == skip_until(content, b, {"\"", NL, "'"})
  IN  IF p = 0 THEN None ELSE Some(SubSeq(content, b, r - 1))

(***************************************************************************)
(* Metadata extraction: the body of the first-pass loop (main.rs 103-173)  *)
(***************************************************************************)
\* main.rs 109-113: the captured title, else the first file name segment.
full_title(parts, content) ==
  LET title_caps == title_re_captures(content)
  IN  IF title_caps # None THEN title_caps[1] ELSE parts[1]

\* Variant: the title is looked up before the file name is segmented.
series_name_ep_num_title_first(filename, content) ==
  LET parts      == split(filename, "_")
      title_caps == title_re_captures(content)
      raw        == IF title_caps # None THEN title_caps[1]
                    ELSE IF Len(parts) >= 2 THEN parts[1] ELSE filename
  IN  <<clean_series_name(raw), IF Len(parts) >= 2 THEN trim_end_matches_md(parts[2]) ELSE <<>>>>

\* main.rs 106-121: (series_name, ep_num).
series_name_ep_num(filename, content) ==
  LET parts == split(filename, "_")
  IN  IF Len(parts) >= 2
        THEN <<clean_series_name(full_title(parts, content)), trim_end_matches_md(parts[2])>>
        ELSE <<filename, <<>>>>

\* main.rs 123-137: (ep_year, ep_month).
year_month(content) ==
  LET tag_caps == tag_re_captures(content)
      yyyymm   == yyyymm_re_find(tag_caps[1])
  IN  IF tag_caps # None /\ yyyymm # None /\ byte_len(yyyymm[1]) = 6
        THEN <<SubSeq(yyyymm[1], 1, 4), SubSeq(yyyymm[1], 5, 6)>>
        ELSE <<<<>>, <<>>>>

\* main.rs 139-141: the trimmed description capture, empty when there is no match.
description_text(content) ==
  LET desc_caps == desc_re_captures(content)
  IN  IF desc_caps # None THEN trim(desc_caps[1]) ELSE <<>>

\* main.rs 144-160: the lines after the second "---" line, each trimmed and followed
\* by a space, the whole trimmed.
below(content) ==
  LET ls     == lines(content)
      dashes == {k \in 1..Len(ls) : trim(ls[k]) = <<"-", "-", "-">>}
      second == leftmost(dashes \ {leftmost(dashes)})
      RECURSIVE push(_)
      push(k) == IF k > Len(ls) THEN <<>> ELSE trim(ls[k]) \o <<" ">> \o push(k + 1)
  IN  IF second = 0 THEN <<>> ELSE trim(push(second + 1))

AbstractCap == 200

Ellipsis == <<".", ".", ".">>

\* Variant: the length is taken in bytes (below.len()) instead of characters.
truncate_by_bytes(text) ==
  LET below_chars == SubSeq(text, 1, Min(AbstractCap, Len(text)))
  IN  IF byte_len(text) > AbstractCap THEN below_chars \o Ellipsis ELSE below_chars

\* main.rs 161-166: the first 200 characters, with "..." when there are more.
truncate(text) ==
  LET below_chars == SubSeq(text, 1, Min(AbstractCap, Len(text)))
  IN  IF Len(text) > AbstractCap THEN below_chars \o Ellipsis ELSE below_chars

\* main.rs 139-167: abstract_text.
abstract_of(content) ==
  LET abstract_text == description_text(content)
  IN  IF abstract_text = <<>> THEN truncate(below(content)) ELSE abstract_text

\* Variant: the uncleaned title is pushed as the episode's name.
episode_of_full_title(doc) ==
  LET parts == split(doc.filename, "_")
      sn    == series_name_ep_num(doc.filename, doc.content)
      ym    == year_month(doc.content)
  IN  <<IF Len(parts) >= 2 THEN full_title(parts, doc.content) ELSE sn[1],
        sn[2], ym[1], ym[2], abstract_of(doc.content)>>

\* main.rs 172: the tuple pushed to episodes.
episode_of(doc) ==
  LET sn == series_name_ep_num(doc.filename, doc.content)
      ym == year_month(doc.content)
  IN  <<sn[1], sn[2], ym[1], ym[2], abstract_of(doc.content)>>

(***************************************************************************)
(* The relational store (SQLite as main.rs uses it)                        *)
(***************************************************************************)
RECURSIVE max_id(_)
max_id(table) ==
  IF table = <<>> THEN 0
  ELSE LET m == max_id(Tail(table))
       IN  IF Head(table).id > m THEN Head(table).id ELSE m

\* INTEGER PRIMARY KEY AUTOINCREMENT: one more than the largest id ever used.
next_id(table, seq) == (IF seq > max_id(table) THEN seq ELSE max_id(table)) + 1

\* series_name TEXT UNIQUE.
unique_violation(table, series_name) ==
  \E k \in 1..Len(table) : table[k].series_name = series_name

\* SELECT id FROM series_data WHERE series_name = ?1, query_row: the first row, None
\* for QueryReturnedNoRows.
select_series_id(table, clean_name) ==
  LET k == leftmost({j \in 1..Len(table) : table[j].series_name = clean_name})
  IN  IF k = 0 THEN None ELSE Some(table[k].id)

\* Variant: the episode rows are left in place.
keep_ep_data(table) == table

\* DELETE FROM ep_data.
delete_from_ep_data(table) == <<>>

\* DELETE FROM series_data.
delete_from_series_data(table) == <<>>

\* Variant: the counter is left in place.
keep_sequence(seq) == seq

\* DELETE FROM sqlite_sequence WHERE name = '<table>'.
delete_sequence(seq) == 0

\* Variant: HashMap::insert(key, value), the last value wins.
entry_insert(map, key, value) ==
  [k \in DOMAIN map \cup {key} |-> IF k = key THEN value ELSE map[k]]

\* HashMap::entry(key).or_insert(value).
entry_or_insert(map, key, value) ==
  IF key \in DOMAIN map THEN map ELSE map @@ (key :> value)

EmptyMap == [k \in {} |-> <<>>]

(***************************************************************************)
(* Inputs: file names and markdown contents                                *)
(***************************************************************************)
MaxFiles == 2

MaxRuns == 2

MaxOver == 2

Rep(c, n) == [k \in 1..n |-> c]

Foo == <<"F", "o", "o">>

Foo1 == <<"F", "o", "o", " ", "1">>

Foo12 == <<"F", "o", "o", " ", "1", " ", "2">>

Dashes == <<"-", "-", "-", NL>>

title_line(t) == IF t = None THEN <<>> ELSE TitleKey \o <<" ", "\"">> \o t[1] \o <<"\"", NL>>

tags_line(t) == IF t = None THEN <<>> ELSE TagsKey \o <<" ", "[">> \o t[1] \o <<"]", NL>>

desc_line(d) == IF d = None THEN <<>> ELSE DescKey \o <<" ">> \o d[1] \o <<NL>>

\* A markdown post: front matter between two "---" lines, then the body.
post(title, tags, desc, body) ==
  Dashes \o title_line(title) \o tags_line(tags) \o desc_line(desc) \o Dashes \o body

FileNames ==
  { <<"a", "_", "1", ".", "m", "d">>,
    <<"a", "_", "2", ".", "m", "d">>,
    <<"b", "_", "2", ".", "m", "d">>,
    <<"c", ".", "m", "d">>,
    <<"d", ".", "t", "x", "t">> }

Tag(yyyymm) == <<"t", ",", " ">> \o yyyymm

Contents ==
  { post(Some(Foo),   Some(Tag(<<"2", "0", "2", "4", "0", "1">>)), None, <<"x">>),
    post(Some(Foo1),  Some(Tag(<<"2", "0", "2", "4", "0", "2">>)), None, <<"x">>),
    post(Some(Foo12), Some(Tag(<<"2", "0", "2", "4", "0", "3">>)), None, <<"x">>),
    post(None, None, None, <<"x">>) }

\* The directory listings: at most MaxFiles files, file name |-> content.
Directories ==
  UNION { [N -> Contents] : N \in {M \in SUBSET FileNames : Cardinality(M) <= MaxFiles} }

\* What data.db may hold before a run: nothing, or the rows of an earlier load.
FreshStore ==
  [created |-> FALSE, series_data |-> <<>>, ep_data |-> <<>>, seq_series |-> 0, seq_ep |-> 0]

StaleStore ==
  [created |-> TRUE,
   series_data |-> <<[id |-> 3, series_name |-> Foo, series_year |-> <<"1", "9", "9", "9">>,
                      series_month |-> <<"1", "2">>]>>,
   ep_data |-> <<[id |-> 4, ep_name |-> Foo, ep_num |-> <<"7">>,
                  ep_year |-> <<"1", "9", "9", "9">>, ep_month |-> <<"1", "2">>,
                  series_id |-> 3, abstract |-> <<"o">>]>>,
   seq_series |-> 3, seq_ep |-> 5]

PriorStores == {FreshStore, StaleStore}

(***************************************************************************)
(* State                                                                   *)
(***************************************************************************)
VARIABLES
  dirOk,        \* whether eplot/src/content/blog can be listed
  dir,          \* the directory: file name |-> content
  run,          \* number of the current run of main
  pc,           \* position in main
  status,       \* how the current run ended, "running" until then
  start,        \* the store and the previous run's status when the current run started
  md_files,     \* the sorted .md paths
  series_map,   \* HashMap: series name |-> (year, month)
  episodes,     \* Vec of (series_name, ep_num, ep_year, ep_month, abstract_text)
  pending,      \* keys of series_map the iteration has not yet yielded
  i,            \* index of the next element of episodes in the second loop
  created,      \* whether the two tables exist
  series_data,  \* rows of table series_data, in insertion order
  ep_data,      \* rows of table ep_data, in insertion order
  seq_series,   \* sqlite_sequence entry of series_data (0: no entry)
  seq_ep        \* sqlite_sequence entry of ep_data (0: no entry)

inputVars == <<dirOk, dir>>

localVars == <<md_files, series_map, episodes, pending, i>>

storeVars == <<created, series_data, ep_data, seq_series, seq_ep>>

vars == <<dirOk, dir, run, pc, status, start, md_files, series_map, episodes, pending, i,
          created, series_data, ep_data, seq_series, seq_ep>>

store_now ==
  [created |-> created, series_data |-> series_data, ep_data |-> ep_data,
   seq_series |-> seq_series, seq_ep |-> seq_ep]

Init ==
  /\ dirOk \in BOOLEAN
  /\ dir \in (IF dirOk THEN Directories ELSE {EmptyMap})
  /\ run = 1
  /\ pc = "git"
  /\ status = "running"
  /\ \E prior \in PriorStores :
       /\ created = prior.created
       /\ series_data = prior.series_data
       /\ ep_data = prior.ep_data
       /\ seq_series = prior.seq_series
       /\ seq_ep = prior.seq_ep
       /\ start = [store |-> prior, prev_status |-> "none"]
  /\ md_files = <<>>
  /\ series_map = EmptyMap
  /\ episodes = <<>>
  /\ pending = {}
  /\ i = 1

(***************************************************************************)
(* main (main.rs 21-197), one action per step                              *)
(***************************************************************************)
MdExt == <<"m", "d">>

\* main.rs 61: md_files.sort(), ascending byte order of the paths.
RECURSIVE sort(_)
sort(names) ==
  IF names = {} THEN <<>>
  ELSE LET first == CHOOSE a \in names : \A b \in names \ {a} : bytes_less(a, b)
       IN  <<first>> \o sort(names \ {first})

\* main.rs 53-61: the entries whose extension is "md", sorted.
list_md_files(d) ==
  LET names == sort({f \in DOMAIN d : extension(f) = MdExt})
  IN  [k \in 1..Len(names) |-> [filename |-> names[k], content |-> d[names[k]]]]

\* main.rs 26-49, git pull / git clone succeeded.
GitOk ==
  /\ pc = "git"
  /\ pc' = "read_dir"
  /\ UNCHANGED <<inputVars, run, status, start, localVars, storeVars>>

\* main.rs 34-37 and 45-48: git failed, main returns Ok(()) at once.
GitFailed ==
  /\ pc = "git"
  /\ pc' = "done"
  /\ status' = "git_failed"
  /\ UNCHANGED <<inputVars, run, start, localVars, storeVars>>

\* main.rs 52-61: the directory is listed.
ReadDir ==
  /\ pc = "read_dir"
  /\ dirOk
  /\ md_files' = list_md_files(dir)
  /\ pc' = "open"
  /\ UNCHANGED <<inputVars, run, status, start, series_map, episodes, pending, i, storeVars>>

\* Variant: the store is opened and cleared before the directory is listed.
ReadDirPanic_after_clear ==
  /\ pc = "read_dir"
  /\ ~dirOk
  /\ pc' = "done"
  /\ status' = "panic"
  /\ created' = TRUE
  /\ ep_data' = <<>>
  /\ series_data' = <<>>
  /\ seq_ep' = 0
  /\ seq_series' = 0
  /\ UNCHANGED <<inputVars, run, start, localVars>>

\* main.rs 53-54: fs::read_dir fails, expect panics.
ReadDirPanic ==
  /\ pc = "read_dir"
  /\ ~dirOk
  /\ pc' = "done"
  /\ status' = "panic"
  /\ UNCHANGED <<inputVars, run, start, localVars, storeVars>>

\* main.rs 70-91: Connection::open and the two CREATE TABLE IF NOT EXISTS.
OpenStore ==
  /\ pc = "open"
  /\ created' = TRUE
  /\ pc' = "delete_ep"
  /\ UNCHANGED <<inputVars, run, status, start, localVars,
                 series_data, ep_data, seq_series, seq_ep>>

\* main.rs 93.
DeleteEpData ==
  /\ pc = "delete_ep"
  /\ ep_data' = delete_from_ep_data(ep_data)
  /\ pc' = "delete_ep_seq"
  /\ UNCHANGED <<inputVars, run, status, start, localVars,
                 created, series_data, seq_series, seq_ep>>

\* main.rs 94.
DeleteEpSequence ==
  /\ pc = "delete_ep_seq"
  /\ seq_ep' = delete_sequence(seq_ep)
  /\ pc' = "delete_series"
  /\ UNCHANGED <<inputVars, run, status, start, localVars,
                 created, series_data, ep_data, seq_series>>

\* main.rs 95.
DeleteSeriesData ==
  /\ pc = "delete_series"
  /\ series_data' = delete_from_series_data(series_data)
  /\ pc' = "delete_series_seq"
  /\ UNCHANGED <<inputVars, run, status, start, localVars,
                 created, ep_data, seq_series, seq_ep>>

\* main.rs 96-101.
DeleteSeriesSequence ==
  /\ pc = "delete_series_seq"
  /\ seq_series' = delete_sequence(seq_series)
  /\ series_map' = EmptyMap
  /\ episodes' = <<>>
  /\ pc' = "extract"
  /\ UNCHANGED <<inputVars, run, status, start, md_files, pending, i,
                 created, series_data, ep_data, seq_ep>>

\* main.rs 103-173: one iteration of the first-pass loop.
ExtractDocument ==
  /\ pc = "extract"
  /\ Len(episodes) < Len(md_files)
  /\ LET e == episode_of(md_files[Len(episodes) + 1])
     IN  /\ series_map' = entry_or_insert(series_map, e[1], <<e[3], e[4]>>)
         /\ episodes' = Append(episodes, e)
  /\ UNCHANGED <<inputVars, run, pc, status, start, md_files, pending, i, storeVars>>

\* main.rs 103, 176: the first loop ends, the iteration over series_map begins.
EndFirstPass ==
  /\ pc = "extract"
  /\ Len(episodes) = Len(md_files)
  /\ pending' = DOMAIN series_map
  /\ pc' = "insert_series"
  /\ UNCHANGED <<inputVars, run, status, start, md_files, series_map, episodes, i, storeVars>>

\* main.rs 176-181: one iteration; a HashMap yields its entries in any order.
InsertSeries ==
  /\ pc = "insert_series"
  /\ \E series_name \in pending :
       IF unique_violation(series_data, series_name)
         THEN /\ pc' = "done"
              /\ status' = "write_failure"
              /\ UNCHANGED <<pending, series_data, seq_series>>
         ELSE /\ series_data' = Append(series_data,
                  [id |-> next_id(series_data, seq_series),
                   series_name |-> series_name,
                   series_year |-> series_map[series_name][1],
                   series_month |-> series_map[series_name][2]])
              /\ seq_series' = next_id(series_data, seq_series)
              /\ pending' = pending \ {series_name}
              /\ UNCHANGED <<pc, status>>
  /\ UNCHANGED <<inputVars, run, start, md_files, series_map, episodes, i,
                 created, ep_data, seq_ep>>

\* main.rs 176, 184: the series loop ends, the episode loop begins.
EndSeriesInsert ==
  /\ pc = "insert_series"
  /\ pending = {}
  /\ i' = 1
  /\ pc' = "insert_ep"
  /\ UNCHANGED <<inputVars, run, status, start, md_files, series_map, episodes, pending,
                 storeVars>>

\* main.rs 185-187: the key looked up for episodes[i].
lookup_key(e) == clean_series_name(e[1])

\* main.rs 184-193: one iteration, the series is found.
InsertEpisode ==
  /\ pc = "insert_ep"
  /\ i <= Len(episodes)
  /\ LET e         == episodes[i]
         series_id == select_series_id(series_data, lookup_key(e))
     IN  /\ series_id # None
         /\ ep_data' = Append(ep_data,
              [id |-> next_id(ep_data, seq_ep), ep_name |-> e[1], ep_num |-> e[2],
               ep_year |-> e[3], ep_month |-> e[4], series_id |-> series_id[1],
               abstract |-> e[5]])
         /\ seq_ep' = next_id(ep_data, seq_ep)
  /\ i' = i + 1
  /\ UNCHANGED <<inputVars, run, pc, status, start, md_files, series_map, episodes, pending,
                 created, series_data, seq_series>>

\* main.rs 187: query_row returns QueryReturnedNoRows, main returns the error.
EpisodeLookupMiss ==
  /\ pc = "insert_ep"
  /\ i <= Len(episodes)
  /\ select_series_id(series_data, lookup_key(episodes[i])) = None
  /\ pc' = "done"
  /\ status' = "lookup_miss"
  /\ UNCHANGED <<inputVars, run, start, localVars, storeVars>>

\* main.rs 195-196: "Done.", Ok(()).
Finish ==
  /\ pc = "insert_ep"
  /\ i > Len(episodes)
  /\ pc' = "done"
  /\ status' = "ok"
  /\ UNCHANGED <<inputVars, run, start, localVars, storeVars>>

\* The program is run again on the same directory and the same data.db.
NextRun ==
  /\ pc = "done"
  /\ run < MaxRuns
  /\ run' = run + 1
  /\ pc' = "git"
  /\ status' = "running"
  /\ start' = [store |-> store_now, prev_status |-> status]
  /\ md_files' = <<>>
  /\ series_map' = EmptyMap
  /\ episodes' = <<>>
  /\ pending' = {}
  /\ i' = 1
  /\ UNCHANGED <<inputVars, storeVars>>

Next ==
  \/ GitOk
  \/ GitFailed
  \/ ReadDir
  \/ ReadDirPanic
  \/ OpenStore
  \/ DeleteEpData
  \/ DeleteEpSequence
  \/ DeleteSeriesData
  \/ DeleteSeriesSequence
  \/ ExtractDocument
  \/ EndFirstPass
  \/ InsertSeries
  \/ EndSeriesInsert
  \/ InsertEpisode
  \/ EpisodeLookupMiss
  \/ Finish
  \/ NextRun

Spec == Init /\ [][Next]_vars

(***************************************************************************)
(* Extraction alone: the first-pass loop over one post drawn from a wider  *)
(* menu of front matters and bodies.                                       *)
(***************************************************************************)
ExtractNames == { <<"a", "_", "1", ".", "m", "d">>, <<"c", ".", "m", "d">> }

TitleOptions == {None, Some(Foo1)}

TagOptions ==
  { None,
    Some(<<"t", ",", " ", "2", "0", "2", "4", "0", "3", ",", " ", "n">>),
    Some(<<"2", "0", "2", "4", "0", "3", "1", "5">>),
    Some(<<"1", "2", "3", "4", "5">>),
    Some(<<"1", "2", "3", "4", "5", ",", "2", "0", "2", "4", "0", "3">>),
    Some(<<ArabicThree, "0", "2", "4", "0", "3", "1">>) }

DescOptions ==
  { None,
    Some(<<"\"", "\"">>),
    Some(<<"\"", " ", "o", "k", " ", "\"">>),
    Some(<<"'", "o", "k", "'">>),
    Some(<<"\"">> \o Rep("o", AbstractCap + 1) \o <<"\"">>) }

BodyLengths == {0, 1} \cup ((AbstractCap - 1)..(AbstractCap + MaxOver))

\* Bodies of n characters: plain, beginning with a two-byte character, and over two
\* lines with surrounding blanks.
BodyOptions ==
  {Rep("x", n) : n \in BodyLengths}
    \cup {<<EAcute>> \o Rep("x", n - 1) : n \in BodyLengths \ {0}}
    \cup {<<" ", "x", " ", NL, " ">> \o Rep("x", n - 2) \o <<NL>> : n \in BodyLengths \ {0, 1}}

\* Every combination of the options, and the empty content of a file that cannot be
\* read (main.rs 104, unwrap_or_default).
ExtractDocs ==
  { [filename |-> f, content |-> post(t, g, d, b)] :
      f \in ExtractNames, t \in TitleOptions, g \in TagOptions, d \in DescOptions,
      b \in BodyOptions }
    \cup { [filename |-> f, content |-> <<>>] : f \in ExtractNames }

\* The state at the head of the first-pass loop (main.rs 103) of a first run on a new
\* data.db, the directory holding one post.
InitExtract ==
  /\ dirOk = TRUE
  /\ \E doc \in ExtractDocs :
       /\ dir = (doc.filename :> doc.content)
       /\ md_files = <<doc>>
  /\ run = 1
  /\ pc = "extract"
  /\ status = "running"
  /\ start = [store |-> FreshStore, prev_status |-> "none"]
  /\ series_map = EmptyMap
  /\ episodes = <<>>
  /\ pending = {}
  /\ i = 1
  /\ created = TRUE
  /\ series_data = <<>>
  /\ ep_data = <<>>
  /\ seq_series = 0
  /\ seq_ep = 0

NextExtract == ExtractDocument

SpecExtract == InitExtract /\ [][NextExtract]_vars

(***************************************************************************)
(* Properties                                                              *)
(***************************************************************************)
\* series_name_raw of a post: the candidate series title the extractor works from.
series_name_raw(doc) ==
  LET parts == split(doc.filename, "_")
  IN  IF Len(parts) >= 2 THEN full_title(parts, doc.content) ELSE doc.filename

\* series_name_clean of a post: the cleaning rule applied once to series_name_raw.
series_name_clean(doc) == clean_series_name(series_name_raw(doc))

\* The rows of series_data an episode row refers to.
referenced(series, ep) == {j \in 1..Len(series) : series[j].id = ep.series_id}

\* A run that got as far as loading the store.
Loaded == {"ok", "lookup_miss"}

\* C1: after a run that completes successfully, the Episode row of every document has a
\* series_id that identifies exactly one Series row, and that row's series_name is the
\* document's series_name_clean (the cleaning rule applied once to its series_name_raw).
C1_EpisodeLinksCleanedSeries ==
  status = "ok" =>
    /\ Len(ep_data) = Len(md_files)
    /\ \A k \in 1..Len(ep_data) :
         /\ Cardinality(referenced(series_data, ep_data[k])) = 1
         /\ \A j \in referenced(series_data, ep_data[k]) :
              series_data[j].series_name = series_name_clean(md_files[k])

\* C2: whatever the input documents, no run ends in a LookupMiss: the key looked up in
\* pass 2 is always a key that pass 1 inserted into the series mapping.
C2_NoLookupMiss == status # "lookup_miss"

\* C3: after a successful run the Series table holds exactly one row per distinct
\* series_name_clean among the input documents, and each row's year/month are those of
\* the first document with that cleaned name in ascending file name order.
C3_OneSeriesRowPerCleanName ==
  status = "ok" =>
    LET names == {series_name_clean(md_files[k]) : k \in 1..Len(md_files)}
    IN  /\ \A k, l \in 1..Len(md_files) :
             k < l => bytes_less(md_files[k].filename, md_files[l].filename)
        /\ {md_files[k].filename : k \in 1..Len(md_files)}
             = {f \in DOMAIN dir : extension(f) = MdExt}
        /\ {series_data[j].series_name : j \in 1..Len(series_data)} = names
        /\ Len(series_data) = Cardinality(names)
        /\ \A j \in 1..Len(series_data) :
             LET first == leftmost({k \in 1..Len(md_files) :
                                      series_name_clean(md_files[k]) = series_data[j].series_name})
             IN  /\ series_data[j].series_year = year_month(md_files[first].content)[1]
                 /\ series_data[j].series_month = year_month(md_files[first].content)[2]

\* C3 witness: a successful run over two documents with the same cleaned name and
\* different year/month.
C3_Witness ==
  /\ status = "ok"
  /\ \E k, l \in 1..Len(md_files) :
       /\ k < l
       /\ series_name_clean(md_files[k]) = series_name_clean(md_files[l])
       /\ year_month(md_files[k].content) # year_month(md_files[l].content)

\* C4 as stated: the ep_name stored in a document's Episode row is the uncleaned series
\* name (series_name_raw), trailing numeric token included.
C4_EpNameIsRawName ==
  status = "ok" => \A k \in 1..Len(ep_data) : ep_data[k].ep_name = series_name_raw(md_files[k])

\* C4 amended: the ep_name stored in a document's Episode row is the cleaned series name,
\* the deduplication key under which the document was entered in the series mapping; a
\* trailing token of digits and dots is not part of it.
C4_EpNameIsCleanName ==
  status = "ok" =>
    /\ Len(ep_data) = Len(md_files)
    /\ \A k \in 1..Len(ep_data) :
         /\ ep_data[k].ep_name = series_name_clean(md_files[k])
         /\ ep_data[k].ep_name \in DOMAIN series_map

\* C4 witness: an Episode row of a successful run whose document's title ends in a
\* numeric token.
C4_Witness ==
  /\ status = "ok"
  /\ \E k \in 1..Len(ep_data) : series_name_raw(md_files[k]) # series_name_clean(md_files[k])

\* Table contents without the identifiers.
series_tuples(series) ==
  {<<series[j].series_name, series[j].series_year, series[j].series_month>> :
     j \in 1..Len(series)}

episode_tuples(eps, series) ==
  [k \in 1..Len(eps) |->
     <<eps[k].ep_name, eps[k].ep_num, eps[k].ep_year, eps[k].ep_month, eps[k].abstract,
       {series[j].series_name : j \in referenced(series, eps[k])}>>]

\* C5: a run that follows a run on the same directory leaves the same Series tuples and
\* the same sequence of Episode tuples (with the referenced Series name in place of the
\* identifier), whatever order the series mapping is iterated in.
C5_Idempotent ==
  (pc = "done" /\ status \in Loaded /\ start.prev_status \in Loaded) =>
    /\ series_tuples(series_data) = series_tuples(start.store.series_data)
    /\ episode_tuples(ep_data, series_data)
         = episode_tuples(start.store.ep_data, start.store.series_data)

\* C5 witness: two successful runs in succession that inserted the Series rows in
\* different orders.
C5_Witness ==
  /\ pc = "done"
  /\ status = "ok"
  /\ start.prev_status = "ok"
  /\ Len(ep_data) >= 2
  /\ series_data # start.store.series_data

\* C6: from arbitrary prior contents a run clears the Episode table, then the Series
\* table, and resets both counters; after a successful run no earlier row remains, the
\* Series ids are 1..S and the Episode ids 1..E, given to the episodes in enumerator order.
C6_ClearedAndRenumbered ==
  /\ pc \in {"delete_ep", "delete_ep_seq", "delete_series"} =>
       series_data = start.store.series_data
  /\ pc \in {"delete_ep_seq", "delete_series", "delete_series_seq"} => ep_data = <<>>
  /\ pc = "delete_series_seq" => series_data = <<>>
  /\ pc = "extract" =>
       series_data = <<>> /\ ep_data = <<>> /\ seq_series = 0 /\ seq_ep = 0
  /\ status = "ok" =>
       /\ Len(series_data) = Cardinality({series_name_clean(md_files[k]) : k \in 1..Len(md_files)})
       /\ \A j \in 1..Len(series_data) :
            /\ series_data[j].id = j
            /\ \E k \in 1..Len(md_files) :
                 series_data[j].series_name = series_name_clean(md_files[k])
       /\ Len(ep_data) = Len(md_files)
       /\ \A k \in 1..Len(ep_data) :
            /\ ep_data[k].id = k
            /\ ep_data[k].ep_name = series_name_clean(md_files[k])
            /\ ep_data[k].ep_num =
                 series_name_ep_num(md_files[k].filename, md_files[k].content)[2]
            /\ <<ep_data[k].ep_year, ep_data[k].ep_month>> = year_month(md_files[k].content)

\* C6 witness: a successful run over two documents that started from a store holding
\* rows of an earlier load.
C6_Witness ==
  /\ status = "ok"
  /\ start.store.series_data # <<>>
  /\ start.store.ep_data # <<>>
  /\ Len(ep_data) >= 2

\* C7: when the directory cannot be listed the run ends in a fatal error before any
\* document is extracted and before any store operation: the store is as it was.
C7_UnlistableDirectoryTouchesNothing ==
  /\ ~dirOk => pc \in {"git", "read_dir", "done"} /\ status \in {"running", "git_failed", "panic"}
  /\ status = "panic" =>
       /\ ~dirOk
       /\ store_now = start.store
       /\ md_files = <<>>
       /\ episodes = <<>>
       /\ series_map = EmptyMap

\* C7 witness: a run that panicked on the listing, in front of a store that is not yet
\* created.
C7_Witness ==
  /\ status = "panic"
  /\ ~start.store.created

\* The leftmost position of six consecutive decimal digits in a tag list, 0 when none.
six_digits_at(tags) ==
  leftmost({p \in 1..(Len(tags) - 5) : \A j \in p..(p + 5) : is_regex_digit(tags[j])})

\* Whether the digit run that begins at p goes on beyond six digits.
longer_run(tags, p) == p + 6 <= Len(tags) /\ is_regex_digit(tags[p + 6])

\* C8 as stated: year/month are the first four/last two digits of the first run of
\* exactly six consecutive digits in the bracketed tag list; both are empty when there is
\* no tags field, no six consecutive digits, or the matched digits are part of a longer run.
C8_ExactlySixDigits ==
  \A k \in 1..Len(episodes) :
    LET tag_caps == tag_re_captures(md_files[k].content)
        tags     == tag_caps[1]
        p        == six_digits_at(tags)
    IN  IF tag_caps = None \/ p = 0 \/ longer_run(tags, p)
          THEN episodes[k][3] = <<>> /\ episodes[k][4] = <<>>
          ELSE episodes[k][3] = SubSeq(tags, p, p + 3) /\ episodes[k][4] = SubSeq(tags, p + 4, p + 5)

\* C8 amended: year/month are the first four/last two of the first six consecutive digits
\* in the bracketed tag list, also when the digit run goes on beyond them (a tag 20240315
\* gives 2024/03); both are empty when there is no tags field, when there are no six
\* consecutive digits, or when those six digits are not all ASCII digits.
C8_FirstSixDigits ==
  \A k \in 1..Len(episodes) :
    LET tag_caps == tag_re_captures(md_files[k].content)
        tags     == tag_caps[1]
        p        == six_digits_at(tags)
    IN  IF tag_caps = None \/ p = 0 \/ \E j \in p..(p + 5) : ~is_ascii_digit(tags[j])
          THEN episodes[k][3] = <<>> /\ episodes[k][4] = <<>>
          ELSE episodes[k][3] = SubSeq(tags, p, p + 3) /\ episodes[k][4] = SubSeq(tags, p + 4, p + 5)

\* C8 witness: an extracted document whose first six consecutive digits belong to a
\* longer run and gave a year and a month.
C8_Witness ==
  \E k \in 1..Len(episodes) :
    LET tag_caps == tag_re_captures(md_files[k].content)
    IN  /\ tag_caps # None
        /\ six_digits_at(tag_caps[1]) # 0
        /\ longer_run(tag_caps[1], six_digits_at(tag_caps[1]))
        /\ Len(episodes[k][3]) = 4
        /\ Len(episodes[k][4]) = 2

\* The first file name segment, or the whole file name when it has no "_".
filename_fallback(filename) ==
  LET parts == split(filename, "_")
  IN  IF Len(parts) >= 2 THEN parts[1] ELSE filename

\* C9 as stated: whatever the number of "_" segments of the file name, series_name_raw is
\* the captured title when the content has a title field and the file name fallback only
\* when it has none; the deduplication key is the cleaning rule applied to it.
C9_TitleFirstForEveryFileName ==
  \A k \in 1..Len(episodes) :
    LET title_caps == title_re_captures(md_files[k].content)
        raw        == IF title_caps # None THEN title_caps[1]
                      ELSE filename_fallback(md_files[k].filename)
    IN  episodes[k][1] = clean_series_name(raw)

\* C9 amended: for a file name with at least two "_" segments, series_name_raw is the
\* captured title when the content has a title field and the first segment otherwise,
\* and the deduplication key is the cleaning rule applied to it; for a file name without
\* "_" the key is the whole file name, whether or not the content has a title field.
C9_TitleFirstWithTwoSegments ==
  \A k \in 1..Len(episodes) :
    LET title_caps == title_re_captures(md_files[k].content)
        parts      == split(md_files[k].filename, "_")
    IN  IF Len(parts) >= 2
          THEN episodes[k][1] =
                 clean_series_name(IF title_caps # None THEN title_caps[1] ELSE parts[1])
          ELSE episodes[k][1] = md_files[k].filename

\* C9 witness: an extracted document whose file name has no "_" and whose content has a
\* title field, next to one whose file name has two segments and a title.
C9_Witness ==
  /\ \E k \in 1..Len(episodes) :
       /\ Len(split(md_files[k].filename, "_")) < 2
       /\ title_re_captures(md_files[k].content) # None
  /\ \E k \in 1..Len(episodes) :
       /\ Len(split(md_files[k].filename, "_")) >= 2
       /\ title_re_captures(md_files[k].content) # None
       /\ episodes[k][1] # title_re_captures(md_files[k].content)[1]

\* The synopsis source of a post: the description when it yields text, else the body.
synopsis(content) ==
  IF description_text(content) # <<>> THEN description_text(content) ELSE below(content)

\* At most AbstractCap characters of text, then "..." exactly when text is longer.
capped(text) ==
  IF Len(text) > AbstractCap THEN SubSeq(text, 1, AbstractCap) \o Ellipsis ELSE text

\* C10 as stated: abstract_text is at most 200 characters of the synopsis, followed by
\* "..." exactly when the synopsis was longer, whether the synopsis comes from the
\* description field or from the body; it is empty when neither yields text.
C10_AbstractCapped ==
  \A k \in 1..Len(episodes) :
    /\ episodes[k][5] = capped(synopsis(md_files[k].content))
    /\ Len(episodes[k][5]) <= AbstractCap + Len(Ellipsis)

\* C10 amended: when the description field yields text, abstract_text is that text,
\* trimmed and of any length, with no marker; otherwise it is at most 200 characters
\* (not bytes) of the body after the second "---" line, followed by "..." exactly when
\* the body was longer than 200 characters; it is empty when neither yields text.
C10_BodyCappedDescriptionVerbatim ==
  \A k \in 1..Len(episodes) :
    LET desc == description_text(md_files[k].content)
        body == below(md_files[k].content)
    IN  /\ desc # <<>> => episodes[k][5] = desc
        /\ desc = <<>> => episodes[k][5] = capped(body)
        /\ (desc = <<>> /\ body = <<>>) => episodes[k][5] = <<>>

\* C10 witness: an extracted document without description text whose body is longer
\* than the cap and came out as 200 characters and the marker.
C10_Witness ==
  \E k \in 1..Len(episodes) :
    /\ description_text(md_files[k].content) = <<>>
    /\ Len(below(md_files[k].content)) > AbstractCap
    /\ Len(episodes[k][5]) = AbstractCap + Len(Ellipsis)

====
